---------------------------- MODULE Spec2Model ----------------------------
(***************************************************************************)
(* Model of app.py, the "Analisador de Texto Multidimensional".            *)
(*                                                                         *)
(* The state is what one browser session of the Streamlit script holds:    *)
(* the cached lexicon (categories), the text area (texto) and what the     *)
(* last run of the script computed.  Every click reruns the script from    *)
(* top to bottom, so one action is one run of the script.                  *)
(*                                                                         *)
(* A text is a sequence of one-character strings.  Python floats are       *)
(* modelled by exact rationals <<numerator, denominator>> in lowest terms: *)
(* equality of two model values stands for equality of the two floats      *)
(* within rounding.                                                        *)
(***************************************************************************)
EXTENDS Integers, Sequences, FiniteSets, TLC

VARIABLES
    categories,            \* app.py:54   the lexicon returned by load_categories()
    texto,                 \* app.py:244  content of the text area
    outcome,               \* how the last run of the script ended
    executed,              \* the pipeline functions the last run has called, in order
    translation,           \* app.py:73   what became of blob.translate in the last run
    blob,                  \* app.py:71-76 the text the sentiment estimate was taken on
    sentiment_info,        \* app.py:259
    scores,                \* app.py:356
    total_palavras_chave,  \* app.py:356
    percentuais,           \* app.py:357
    axes,                  \* app.py:358
    insights,              \* app.py:429
    first                  \* history: the first completed analysis of the session

vars == <<categories, texto, outcome, executed, translation, blob, sentiment_info,
          scores, total_palavras_chave, percentuais, axes, insights, first>>

-----------------------------------------------------------------------------
(* Bounds *)

\* longest text enumerated character by character in SpecTexts
MaxLen == 4
\* longest text typed character by character in Spec and SpecSentiment
MaxSessionLen == 1
\* most occurrences of one keyword in the texts built from keywords (ScoreTexts)
MaxScore == 3

-----------------------------------------------------------------------------
(* Floats as exact rationals *)

Abs(i) == IF i < 0 THEN -i ELSE i

RECURSIVE GCD(_, _)
GCD(a, b) == IF b = 0 THEN a ELSE GCD(b, a % b)

\* the rational n/d in lowest terms with a positive denominator (d # 0)
Rat(n, d) ==
    LET g == GCD(Abs(n), Abs(d))
        s == IF d < 0 THEN -1 ELSE 1
    IN  <<(s * n) \div g, (s * d) \div g>>

\* an int used where a float is expected
FromInt(i) == <<i, 1>>

RAdd(x, y) == Rat(x[1] * y[2] + y[1] * x[2], x[2] * y[2])
\* float division by zero
ZeroDivisionError == [exception |-> "ZeroDivisionError"]

\* true division x / y
RDiv(x, y) == IF y[1] = 0 THEN ZeroDivisionError ELSE Rat(x[1] * y[2], x[2] * y[1])
\* x * y; an exception raised while evaluating x propagates
RMul(x, y) == IF x = ZeroDivisionError THEN x ELSE Rat(x[1] * y[1], x[2] * y[2])
RGt(x, y) == x[1] * y[2] > y[1] * x[2]
RLt(x, y) == RGt(y, x)

-----------------------------------------------------------------------------
(* Characters, str.lower() and the regular-expression classes \w and \s *)

LowerCase == {"a", "é"}
UpperCase == {"A"}
Punctuation == {","}
WhiteSpace == {" "}
\* the underscore is a word character for \w and \b: re.sub leaves it in place
Underscore == {"_"}
Alphabet == LowerCase \cup UpperCase \cup Punctuation \cup WhiteSpace \cup Underscore

\* str.lower() on one character
LowerChar(c) == IF c = "A" THEN "a" ELSE c
\* str.lower()
lower(s) == [i \in 1..Len(s) |-> LowerChar(s[i])]

\* \w : letters, digits and the underscore
IsWordChar(c) == c \in LowerCase \cup UpperCase \cup Underscore
\* \s
IsSpaceChar(c) == c \in WhiteSpace

\* re.sub(r'[^\w\s]', '', s)
re_sub_non_word_space(s) == SelectSeq(s, LAMBDA c : IsWordChar(c) \/ IsSpaceChar(c))

\* \b at the gap before position p of s (p in 1..Len(s)+1): exactly one of the
\* two neighbours is a word character; outside the string counts as non-word
WordAt(s, q) == q \in 1..Len(s) /\ IsWordChar(s[q])
WordBoundary(s, p) == WordAt(s, p - 1) # WordAt(s, p)

\* the literal palavra (re.escape) occupies s[i .. i+Len(palavra)-1]
LiteralAt(palavra, s, i) ==
    /\ i + Len(palavra) - 1 <= Len(s)
    /\ \A j \in 1..Len(palavra) : s[i + j - 1] = palavra[j]

\* re.escape(palavra) alone, without the two \b
PatternMatchesAt_substring(palavra, s, i) == LiteralAt(palavra, s, i)

\* r'\b' + re.escape(palavra) + r'\b' matches at position i
PatternMatchesAt(palavra, s, i) ==
    /\ LiteralAt(palavra, s, i)
    /\ WordBoundary(s, i)
    /\ WordBoundary(s, i + Len(palavra))

\* len(re.findall(pattern, s)): scan from the left, a match consumes its characters
RECURSIVE findall_from(_, _, _)
findall_from(palavra, s, i) ==
    IF i > Len(s) THEN 0
    ELSE IF PatternMatchesAt(palavra, s, i)
         THEN 1 + findall_from(palavra, s, i + Len(palavra))
         ELSE findall_from(palavra, s, i + 1)

len_findall(palavra, s) == findall_from(palavra, s, 1)

-----------------------------------------------------------------------------
(* The lexicon *)

PS == "Pensamento Subjetivo"
PO == "Pensamento Objetivo"
AC == "Ação Comportamental"
AP == "Ação Prática"
CategoryNames == {PS, PO, AC, AP}

\* categories.json with the four categories, one of them with two keywords
FullLexicon ==
    [c \in CategoryNames |->
        CASE c = PS -> << <<"a">> >>
          [] c = PO -> << <<"é">> >>
          [] c = AC -> << <<"a", "a">> >>
          [] c = AP -> << <<"a", "é">>, <<"é", "é">> >>]

\* categories.json with the four categories, two of them with no keyword
SparseLexicon ==
    [c \in CategoryNames |->
        CASE c = PS -> << <<"a">> >>
          [] c = PO -> << >>
          [] c = AC -> << <<"é">>, <<"é", "a">> >>
          [] c = AP -> << >>]

\* categories.json without the "Ação Prática" entry
PartialLexicon == [c \in CategoryNames \ {AP} |-> FullLexicon[c]]

\* load_categories() when the file cannot be read: return {}
EmptyLexicon == [c \in {} |-> << >>]

Lexicons == {FullLexicon, SparseLexicon, PartialLexicon, EmptyLexicon}

-----------------------------------------------------------------------------
(* analyze_categories, calculate_percentages, calculate_axes *)

\* sum(d.values()) of a dict with integer values
RECURSIVE SumOver(_, _)
SumOver(d, keys) ==
    IF keys = {} THEN 0
    ELSE LET k == CHOOSE x \in keys : TRUE
         IN  d[k] + SumOver(d, keys \ {k})

sum_values(d) == SumOver(d, DOMAIN d)

\* the inner loop of analyze_categories over one keyword list, from index i
RECURSIVE count_keywords(_, _, _)
count_keywords(palavras_chave, texto_limpo, i) ==
    IF i > Len(palavras_chave) THEN 0
    ELSE len_findall(palavras_chave[i], texto_limpo)
         + count_keywords(palavras_chave, texto_limpo, i + 1)

\* analyze_categories that goes on counting from the scores of the run before
analyze_categories_accumulating(txt, cats) ==
    LET texto_limpo == re_sub_non_word_space(lower(txt))
        sc == [categoria \in DOMAIN cats |->
                  (IF DOMAIN scores = DOMAIN cats THEN scores[categoria] ELSE 0)
                  + count_keywords(cats[categoria], texto_limpo, 1)]
    IN  <<sc, sum_values(sc)>>

\* app.py:118-131; returns <<scores, total_palavras_chave>>
analyze_categories(txt, cats) ==
    LET texto_limpo == re_sub_non_word_space(lower(txt))
        sc == [categoria \in DOMAIN cats |->
                  0 + count_keywords(cats[categoria], texto_limpo, 1)]
    IN  <<sc, sum_values(sc)>>

\* calculate_percentages with floor division (score // total_score) * 100
calculate_percentages_floor(sc) ==
    LET total_score == sum_values(sc)
    IN  [categoria \in DOMAIN sc |->
            IF total_score > 0
            THEN FromInt((sc[categoria] \div total_score) * 100)
            ELSE FromInt(0)]

\* calculate_percentages without the total_score > 0 test
calculate_percentages_unguarded(sc) ==
    LET total_score == sum_values(sc)
        percent == [categoria \in DOMAIN sc |->
                      RMul(RDiv(FromInt(sc[categoria]), FromInt(total_score)),
                           FromInt(100))]
    IN  IF \E categoria \in DOMAIN sc : percent[categoria] = ZeroDivisionError
        THEN ZeroDivisionError
        ELSE percent

\* calculate_percentages that returns the fractions score / total_score
calculate_percentages_fraction(sc) ==
    LET total_score == sum_values(sc)
        percent == [categoria \in DOMAIN sc |->
                      IF total_score > 0
                      THEN RDiv(FromInt(sc[categoria]), FromInt(total_score))
                      ELSE FromInt(0)]
    IN  IF \E categoria \in DOMAIN sc : percent[categoria] = ZeroDivisionError
        THEN ZeroDivisionError
        ELSE percent

\* app.py:133-144
calculate_percentages(sc) ==
    LET total_score == sum_values(sc)
        percent == [categoria \in DOMAIN sc |->
                      IF total_score > 0
                      THEN RMul(RDiv(FromInt(sc[categoria]), FromInt(total_score)),
                                FromInt(100))
                      ELSE FromInt(0)]
    IN  IF \E categoria \in DOMAIN sc : percent[categoria] = ZeroDivisionError
        THEN ZeroDivisionError
        ELSE percent

\* a dict lookup of a key that is not there
KeyError == [exception |-> "KeyError"]

\* calculate_axes whose fallback sets only the first pole of each axis to 50
calculate_axes_half_fallback(pct) ==
    IF ~(CategoryNames \subseteq DOMAIN pct) THEN KeyError
    ELSE
    LET pensamento_total == RAdd(pct[PS], pct[PO])
        acao_total == RAdd(pct[AC], pct[AP])
        subjetividade_total == RAdd(pct[PS], pct[AC])
        objetividade_total == RAdd(pct[PO], pct[AP])
        den1 == RAdd(pensamento_total, acao_total)
        den2 == RAdd(subjetividade_total, objetividade_total)
    IN  [pensamento |-> IF RGt(den1, FromInt(0))
                        THEN RMul(RDiv(pensamento_total, den1), FromInt(100))
                        ELSE FromInt(50),
         acao       |-> IF RGt(den1, FromInt(0))
                        THEN RMul(RDiv(acao_total, den1), FromInt(100))
                        ELSE FromInt(0),
         subjetivo  |-> IF RGt(den2, FromInt(0))
                        THEN RMul(RDiv(subjetividade_total, den2), FromInt(100))
                        ELSE FromInt(50),
         objetivo   |-> IF RGt(den2, FromInt(0))
                        THEN RMul(RDiv(objetividade_total, den2), FromInt(100))
                        ELSE FromInt(0)]

\* app.py:146-172; KeyError when one of the four keys is missing
calculate_axes(pct) ==
    IF ~(CategoryNames \subseteq DOMAIN pct) THEN KeyError
    ELSE
    LET pensamento_total == RAdd(pct[PS], pct[PO])
        acao_total == RAdd(pct[AC], pct[AP])
        subjetividade_total == RAdd(pct[PS], pct[AC])
        objetividade_total == RAdd(pct[PO], pct[AP])
        den1 == RAdd(pensamento_total, acao_total)
        den2 == RAdd(subjetividade_total, objetividade_total)
        result ==
        [pensamento |-> IF RGt(den1, FromInt(0))
                        THEN RMul(RDiv(pensamento_total, den1), FromInt(100))
                        ELSE FromInt(50),
         acao       |-> IF RGt(den1, FromInt(0))
                        THEN RMul(RDiv(acao_total, den1), FromInt(100))
                        ELSE FromInt(50),
         subjetivo  |-> IF RGt(den2, FromInt(0))
                        THEN RMul(RDiv(subjetividade_total, den2), FromInt(100))
                        ELSE FromInt(50),
         objetivo   |-> IF RGt(den2, FromInt(0))
                        THEN RMul(RDiv(objetividade_total, den2), FromInt(100))
                        ELSE FromInt(50)]
    IN  IF \E k \in DOMAIN result : result[k] = ZeroDivisionError
        THEN ZeroDivisionError
        ELSE result

-----------------------------------------------------------------------------
(* analyze_sentiment and generate_insights *)

\* app.py:72 the characters that trigger the translation
TriggerChars == {"é", "á", "ã", "ç", "õ"}

has_trigger(txt) == \E i \in 1..Len(txt) : lower(txt)[i] \in TriggerChars

\* what blob.translate(to='en') can do when it is called
TranslationOutcomes(txt) ==
    IF has_trigger(txt) THEN {"ok", "failed"} ELSE {"not attempted"}

\* the polarity and subjectivity the external estimator can return
Polarities ==
    {Rat(-1, 1), Rat(-3, 10), Rat(-1, 5), Rat(-1, 10), Rat(0, 1),
     Rat(1, 10), Rat(1, 5), Rat(3, 10), Rat(1, 1)}
Subjectivities == {Rat(0, 1), Rat(3, 10), Rat(1, 2), Rat(7, 10), Rat(1, 1)}
\* the <<polarity, subjectivity>> answers tried in a session
SessionEstimates == {<<Rat(1, 1), Rat(1, 1)>>, <<Rat(-3, 10), Rat(1, 2)>>}

\* app.py:82-107 the if/elif ladder on polarity; an emoji is named by its code point
classify(polarity) ==
    IF RGt(polarity, Rat(3, 10)) THEN
        [sentiment_label |-> "Muito Positivo", sentiment_emoji |-> "U+1F60A",
         sentiment_color |-> "#2ecc71", sentiment_description |-> "Fortemente positivo"]
    ELSE IF RGt(polarity, Rat(1, 10)) THEN
        [sentiment_label |-> "Positivo", sentiment_emoji |-> "U+1F642",
         sentiment_color |-> "#27ae60", sentiment_description |-> "Levemente positivo"]
    ELSE IF RGt(polarity, Rat(-1, 10)) THEN
        [sentiment_label |-> "Neutro", sentiment_emoji |-> "U+1F610",
         sentiment_color |-> "#f39c12", sentiment_description |-> "Equilibrado/Neutro"]
    ELSE IF RGt(polarity, Rat(-3, 10)) THEN
        [sentiment_label |-> "Negativo", sentiment_emoji |-> "U+1F641",
         sentiment_color |-> "#e67e22", sentiment_description |-> "Levemente negativo"]
    ELSE
        [sentiment_label |-> "Muito Negativo", sentiment_emoji |-> "U+1F61E",
         sentiment_color |-> "#e74c3c", sentiment_description |-> "Fortemente negativo"]

\* analyze_sentiment without the try/except around the translation
analyze_sentiment_uncaught(txt, tr, polarity, subjectivity) ==
    LET c == classify(polarity)
    IN  [blob   |-> IF has_trigger(txt) THEN "texto_ingles" ELSE "texto",
         raised |-> has_trigger(txt) /\ tr = "failed",
         info   |-> [polarity              |-> polarity,
                     subjectivity          |-> subjectivity,
                     sentiment_label       |-> c.sentiment_label,
                     sentiment_emoji       |-> c.sentiment_emoji,
                     sentiment_color       |-> c.sentiment_color,
                     sentiment_description |-> c.sentiment_description]]

\* app.py:68-116.  tr is what the translation does if it is attempted; polarity
\* and subjectivity are what the estimator returns for the text of the blob.
\* Returns the text the estimate was taken on, whether an exception left the
\* function, and the dict of line 109.
analyze_sentiment(txt, tr, polarity, subjectivity) ==
    LET c == classify(polarity)
    IN  [blob   |-> IF has_trigger(txt) /\ tr = "ok" THEN "texto_ingles" ELSE "texto",
         raised |-> FALSE,
         info   |-> [polarity              |-> polarity,
                     subjectivity          |-> subjectivity,
                     sentiment_label       |-> c.sentiment_label,
                     sentiment_emoji       |-> c.sentiment_emoji,
                     sentiment_color       |-> c.sentiment_color,
                     sentiment_description |-> c.sentiment_description]]

\* generate_insights with >= 0.7 and <= 0.3 on subjectivity
generate_insights_closed(info, ax) ==
    LET polarity == info.polarity
        subjectivity == info.subjectivity
        i1 == IF RGt(ax.pensamento, FromInt(70)) THEN <<"Texto reflexivo">>
              ELSE IF RGt(ax.acao, FromInt(70)) THEN <<"Texto ativo">>
              ELSE <<"Equilíbrio reflexão-ação">>
        i2 == IF RGt(ax.subjetivo, FromInt(70)) THEN <<"Abordagem subjetiva">>
              ELSE IF RGt(ax.objetivo, FromInt(70)) THEN <<"Abordagem objetiva">>
              ELSE <<"Perspectiva integrada">>
        i3 == IF RGt(polarity, Rat(3, 10)) THEN <<"Tom positivo">>
              ELSE IF RLt(polarity, Rat(-3, 10)) THEN <<"Tom crítico">>
              ELSE <<"Tom neutro">>
        i4 == IF ~RLt(subjectivity, Rat(7, 10)) THEN <<"Alta subjetividade">>
              ELSE IF ~RGt(subjectivity, Rat(3, 10)) THEN <<"Baixa subjetividade">>
              ELSE << >>
    IN  i1 \o i2 \o i3 \o i4

\* generate_insights with >= 70 on the four axis values
generate_insights_from_70(info, ax) ==
    LET polarity == info.polarity
        subjectivity == info.subjectivity
        i1 == IF ~RLt(ax.pensamento, FromInt(70)) THEN <<"Texto reflexivo">>
              ELSE IF ~RLt(ax.acao, FromInt(70)) THEN <<"Texto ativo">>
              ELSE <<"Equilíbrio reflexão-ação">>
        i2 == IF ~RLt(ax.subjetivo, FromInt(70)) THEN <<"Abordagem subjetiva">>
              ELSE IF ~RLt(ax.objetivo, FromInt(70)) THEN <<"Abordagem objetiva">>
              ELSE <<"Perspectiva integrada">>
        i3 == IF RGt(polarity, Rat(3, 10)) THEN <<"Tom positivo">>
              ELSE IF RLt(polarity, Rat(-3, 10)) THEN <<"Tom crítico">>
              ELSE <<"Tom neutro">>
        i4 == IF RGt(subjectivity, Rat(7, 10)) THEN <<"Alta subjetividade">>
              ELSE IF RLt(subjectivity, Rat(3, 10)) THEN <<"Baixa subjetividade">>
              ELSE << >>
    IN  i1 \o i2 \o i3 \o i4

\* app.py:175-210; each insight is named by its title
generate_insights(info, ax) ==
    LET polarity == info.polarity
        subjectivity == info.subjectivity
        i1 == IF RGt(ax.pensamento, FromInt(70)) THEN <<"Texto reflexivo">>
              ELSE IF RGt(ax.acao, FromInt(70)) THEN <<"Texto ativo">>
              ELSE <<"Equilíbrio reflexão-ação">>
        i2 == IF RGt(ax.subjetivo, FromInt(70)) THEN <<"Abordagem subjetiva">>
              ELSE IF RGt(ax.objetivo, FromInt(70)) THEN <<"Abordagem objetiva">>
              ELSE <<"Perspectiva integrada">>
        i3 == IF RGt(polarity, Rat(3, 10)) THEN <<"Tom positivo">>
              ELSE IF RLt(polarity, Rat(-3, 10)) THEN <<"Tom crítico">>
              ELSE <<"Tom neutro">>
        i4 == IF RGt(subjectivity, Rat(7, 10)) THEN <<"Alta subjetividade">>
              ELSE IF RLt(subjectivity, Rat(3, 10)) THEN <<"Baixa subjetividade">>
              ELSE << >>
    IN  i1 \o i2 \o i3 \o i4

-----------------------------------------------------------------------------
(* One run of the script *)

\* a name the run never bound
None == [none |-> TRUE]

IsException(v) == v \in {KeyError, ZeroDivisionError}

\* what becomes of the lexicon in a run: analyze_categories (app.py:121-124) and
\* the loop of app.py:467-468 read categories.keys() and categories.items() and
\* assign nothing into the dict
categories_after_run(cats) == cats

\* app.py:256-431, one run of the analysis on the text txt: the calls in program
\* order; the first exception ends the run and leaves the later names unbound
script_run(txt, cats, tr, polarity, subjectivity) ==
    LET s   == analyze_sentiment(txt, tr, polarity, subjectivity)
        ac  == analyze_categories(txt, cats)
        pct == calculate_percentages(ac[1])
        ax  == calculate_axes(pct)
        base == [outcome |-> "complete", executed |-> << >>,
                 translation |-> tr, blob |-> s.blob,
                 sentiment_info |-> None, scores |-> None,
                 total_palavras_chave |-> None, percentuais |-> None,
                 axes |-> None, insights |-> None]
    IN  IF s.raised THEN
            [base EXCEPT !.outcome = "TranslationError",
                         !.executed = <<"analyze_sentiment">>]
        ELSE IF IsException(pct) THEN
            [base EXCEPT !.outcome = pct.exception,
                         !.executed = <<"analyze_sentiment", "analyze_categories",
                                        "calculate_percentages">>,
                         !.sentiment_info = s.info,
                         !.scores = ac[1], !.total_palavras_chave = ac[2]]
        ELSE IF IsException(ax) THEN
            [base EXCEPT !.outcome = ax.exception,
                         !.executed = <<"analyze_sentiment", "analyze_categories",
                                        "calculate_percentages", "calculate_axes">>,
                         !.sentiment_info = s.info,
                         !.scores = ac[1], !.total_palavras_chave = ac[2],
                         !.percentuais = pct]
        ELSE
            [base EXCEPT !.executed = <<"analyze_sentiment", "analyze_categories",
                                        "calculate_percentages", "calculate_axes",
                                        "generate_insights">>,
                         !.sentiment_info = s.info,
                         !.scores = ac[1], !.total_palavras_chave = ac[2],
                         !.percentuais = pct, !.axes = ax,
                         !.insights = generate_insights(s.info, ax)]

\* the run renders nothing of an analysis
NothingRendered(how) ==
    /\ outcome' = how
    /\ executed' = << >>
    /\ translation' = "not attempted"
    /\ blob' = None
    /\ sentiment_info' = None
    /\ scores' = None
    /\ total_palavras_chave' = None
    /\ percentuais' = None
    /\ axes' = None
    /\ insights' = None

\* the texts of at most n characters
TextsUpTo(n) == UNION {[1..k -> Alphabet] : k \in 0..n}

\* uploaded files: one whole-word occurrence of each of four keywords; the same
\* with capitals and punctuation; a repeated keyword; three categories out of
\* four; three occurrences against one
FourKeywords == <<"a", " ", "é", " ", "a", "a", " ", "a", "é">>
FourKeywordsPunctuated ==
    <<"A", ",", " ", "é", ",", " ", "A", "a", ",", " ", "A", "é", ",">>
SampleTexts ==
    { FourKeywords,
      FourKeywordsPunctuated,
      <<"a", " ", "a", " ", "é">>,
      <<"a", " ", "é", " ", "a", "a">>,
      <<"a", " ", "a", " ", "a", " ", "é", "é">> }

\* palavra and a space, n times
RECURSIVE Repeat(_, _)
Repeat(palavra, n) == IF n = 0 THEN << >> ELSE palavra \o <<" ">> \o Repeat(palavra, n - 1)

\* for every choice of four counts in 0..MaxScore, the text with that many
\* occurrences of the first keyword of each category of FullLexicon
ScoreTexts ==
    { Repeat(FullLexicon[PS][1], v[PS]) \o Repeat(FullLexicon[PO][1], v[PO])
        \o Repeat(FullLexicon[AC][1], v[AC]) \o Repeat(FullLexicon[AP][1], v[AP]) :
      v \in [CategoryNames -> 0..MaxScore] }

\* seven occurrences of the first keyword of one category of FullLexicon and
\* three of the first keyword of another: a pole of an axis at exactly 70
ThresholdTexts ==
    { Repeat(FullLexicon[c][1], 7) \o Repeat(FullLexicon[d][1], 3) :
      c \in CategoryNames, d \in CategoryNames }

Texts == TextsUpTo(MaxLen) \cup SampleTexts \cup ScoreTexts \cup ThresholdTexts

-----------------------------------------------------------------------------
(* Actions *)

\* app.py:41-54 and 239-241: the lexicon is loaded, the text area is empty
Init ==
    /\ categories \in Lexicons
    /\ texto = << >>
    /\ outcome = "idle"
    /\ executed = << >>
    /\ translation = "not attempted"
    /\ blob = None
    /\ sentiment_info = None
    /\ scores = None
    /\ total_palavras_chave = None
    /\ percentuais = None
    /\ axes = None
    /\ insights = None
    /\ first = None

\* app.py:244-247: the user types one more character; the script reruns with
\* analyze_button False
TypeChar ==
    /\ Len(texto) < MaxSessionLen
    /\ \E c \in Alphabet : texto' = Append(texto, c)
    /\ NothingRendered("idle")
    /\ UNCHANGED <<categories, first>>

\* app.py:228-237: a .txt or .pdf file is uploaded and becomes the text
UploadFile ==
    /\ \E t \in SampleTexts : texto' = t
    /\ NothingRendered("idle")
    /\ UNCHANGED <<categories, first>>

\* app.py:224-226: "Limpar texto"
ClearText ==
    /\ texto' = << >>
    /\ NothingRendered("idle")
    /\ UNCHANGED <<categories, first>>

\* app.py:252-254: "Analisar Texto" with an empty text area
AnalyzeEmpty ==
    /\ texto = << >>
    /\ NothingRendered("warning")
    /\ UNCHANGED <<categories, texto, first>>

\* the run r becomes the state of the session
Render(r) ==
    /\ outcome' = r.outcome
    /\ executed' = r.executed
    /\ translation' = r.translation
    /\ blob' = r.blob
    /\ sentiment_info' = r.sentiment_info
    /\ scores' = r.scores
    /\ total_palavras_chave' = r.total_palavras_chave
    /\ percentuais' = r.percentuais
    /\ axes' = r.axes
    /\ insights' = r.insights

\* what of a run the history keeps; later counts what followed it: 0 nothing,
\* 1 a run on another text, 2 a run on the same text after that
Snapshot(txt, cats, r) ==
    [texto |-> txt, categories |-> cats, scores |-> r.scores,
     total_palavras_chave |-> r.total_palavras_chave,
     percentuais |-> r.percentuais, axes |-> r.axes, later |-> 0]

Later(h, txt) ==
    IF h.later = 0 /\ txt # h.texto THEN [h EXCEPT !.later = 1]
    ELSE IF h.later = 1 /\ txt = h.texto THEN [h EXCEPT !.later = 2]
    ELSE h

\* app.py:255-431: "Analisar Texto" with a text; the history keeps the first run
\* of the session that reached analyze_categories
AnalyzeText ==
    /\ texto # << >>
    /\ \E e \in SessionEstimates, tr \in TranslationOutcomes(texto) :
          \E r \in {script_run(texto, categories, tr, e[1], e[2])} :
              /\ Render(r)
              /\ first' = IF r.scores = None THEN first
                          ELSE IF first = None THEN Snapshot(texto, categories, r)
                          ELSE Later(first, texto)
    /\ categories' = categories_after_run(categories)
    /\ UNCHANGED texto

Next ==
    \/ TypeChar
    \/ UploadFile
    \/ ClearText
    \/ AnalyzeEmpty
    \/ AnalyzeText

\* one browser session
Spec == Init /\ [][Next]_vars

-----------------------------------------------------------------------------
(* The run as a function of its inputs *)

\* a lexicon, a text of T, nothing analysed yet
InitInputs(T) ==
    /\ categories \in Lexicons
    /\ texto \in T
    /\ outcome = "idle"
    /\ executed = << >>
    /\ translation = "not attempted"
    /\ blob = None
    /\ sentiment_info = None
    /\ scores = None
    /\ total_palavras_chave = None
    /\ percentuais = None
    /\ axes = None
    /\ insights = None
    /\ first = None

\* app.py:256-431 applied once to the inputs (to the empty text too: the
\* functions do not ask for a text), for every answer in E of the estimator and
\* every answer of the translator
AnalyzeOnce(E) ==
    /\ outcome = "idle"
    /\ \E e \in E, tr \in TranslationOutcomes(texto) :
          \E r \in {script_run(texto, categories, tr, e[1], e[2])} : Render(r)
    /\ categories' = categories_after_run(categories)
    /\ UNCHANGED <<texto, first>>

\* every text of Texts, two answers of the estimator
InitTexts == InitInputs(Texts)
NextTexts == AnalyzeOnce(SessionEstimates)
SpecTexts == InitTexts /\ [][NextTexts]_vars

\* a few texts, every answer of the estimator
InitSentiment == InitInputs(TextsUpTo(MaxSessionLen) \cup SampleTexts)
NextSentiment == AnalyzeOnce(Polarities \X Subjectivities)
SpecSentiment == InitSentiment /\ [][NextSentiment]_vars

-----------------------------------------------------------------------------
(* Properties *)

Called(f) == \E i \in 1..Len(executed) : executed[i] = f

\* the sum of the values of a dict of rationals
RECURSIVE RSumOver(_, _)
RSumOver(d, keys) ==
    IF keys = {} THEN FromInt(0)
    ELSE LET k == CHOOSE x \in keys : TRUE
         IN  RAdd(d[k], RSumOver(d, keys \ {k}))

\* x is a rational of [0, 100]
InPercentRange(x) == ~RLt(x, FromInt(0)) /\ ~RGt(x, FromInt(100))

\* the positions of s where palavra stands as a whole word: the characters are
\* there and neither neighbour is a word character
WholeWordPositions(palavra, s) ==
    {i \in 1..Len(s) :
        /\ LiteralAt(palavra, s, i)
        /\ (i = 1 \/ ~IsWordChar(s[i - 1]))
        /\ (i + Len(palavra) > Len(s) \/ ~IsWordChar(s[i + Len(palavra)]))}

\* the text in lower case with its punctuation taken out
CleanedText == SelectSeq(lower(texto), LAMBDA c : c \notin Punctuation)

RECURSIVE WholeWordCount(_, _, _)
WholeWordCount(palavras, s, i) ==
    IF i > Len(palavras) THEN 0
    ELSE Cardinality(WholeWordPositions(palavras[i], s)) + WholeWordCount(palavras, s, i + 1)

\* no keyword of the lexicon stands as a whole word in the cleaned text
NoKeywordInText ==
    \A c \in DOMAIN categories : \A i \in 1..Len(categories[c]) :
        WholeWordPositions(categories[c][i], CleanedText) = {}

FourCategories == DOMAIN categories = CategoryNames

\* C1: whenever calculate_percentages has returned, the percentages sum to 100
\* if the total keyword count is greater than 0 and are all 0 (sum 0) if it is
\* 0; the run never ends in a division fault.
C1_PercentagesSumTo100OrZero ==
    /\ outcome # "ZeroDivisionError"
    /\ percentuais # None =>
          /\ DOMAIN percentuais = DOMAIN categories
          /\ IF total_palavras_chave > 0
             THEN RSumOver(percentuais, DOMAIN percentuais) = FromInt(100)
             ELSE /\ \A c \in DOMAIN percentuais : percentuais[c] = FromInt(0)
                  /\ RSumOver(percentuais, DOMAIN percentuais) = FromInt(0)

\* a run with three keyword occurrences split two to one
C1_Witness ==
    /\ percentuais # None
    /\ FourCategories
    /\ total_palavras_chave = 3
    /\ percentuais[PS] = Rat(200, 3)
    /\ percentuais[PO] = Rat(100, 3)

\* C2: for every four-category percentage mapping calculate_percentages has
\* produced, calculate_axes returns four values, each in [0,100], with
\* pensamento + acao = 100 and subjetivo + objetivo = 100.
C2_AxesSumTo100 ==
    (percentuais # None /\ DOMAIN percentuais = CategoryNames) =>
        /\ axes # None
        /\ DOMAIN axes = {"pensamento", "acao", "subjetivo", "objetivo"}
        /\ \A k \in DOMAIN axes : InPercentRange(axes[k])
        /\ RAdd(axes.pensamento, axes.acao) = FromInt(100)
        /\ RAdd(axes.subjetivo, axes.objetivo) = FromInt(100)

\* axes off the fallback path and different from each other
C2_Witness ==
    /\ axes # None
    /\ axes.pensamento = FromInt(100)
    /\ axes.acao = FromInt(0)
    /\ axes.subjetivo = Rat(200, 3)
    /\ axes.objetivo = Rat(100, 3)

\* C3: with a four-category lexicon and a text in which no keyword stands, the
\* run completes, all scores are 0, the total is 0, all percentages are 0 and
\* the four axes are exactly 50.
C3_ZeroKeywordText ==
    (outcome # "idle" /\ FourCategories /\ NoKeywordInText) =>
        /\ outcome = "complete"
        /\ \A c \in CategoryNames : scores[c] = 0
        /\ total_palavras_chave = 0
        /\ \A c \in CategoryNames : percentuais[c] = FromInt(0)
        /\ axes = [pensamento |-> FromInt(50), acao |-> FromInt(50),
                   subjetivo |-> FromInt(50), objetivo |-> FromInt(50)]

\* a completed run on a text of word characters and punctuation with no keyword
C3_Witness ==
    /\ outcome = "complete"
    /\ categories = FullLexicon
    /\ texto = <<"a", "_", ",">>
    /\ axes.pensamento = FromInt(50)

\* the run went past the empty-text test of app.py:253
Ran == outcome \notin {"idle", "warning"}

\* the label the five-bucket partition gives to polarity p
PartitionLabel(p) ==
    IF RGt(p, Rat(3, 10)) THEN "Muito Positivo"
    ELSE IF RGt(p, Rat(1, 10)) THEN "Positivo"
    ELSE IF ~RLt(p, Rat(-1, 10)) THEN "Neutro"
    ELSE IF ~RLt(p, Rat(-3, 10)) THEN "Negativo"
    ELSE "Muito Negativo"

\* C4: analyze_sentiment labels the polarity by the partition >0.3 Muito
\* Positivo, (0.1,0.3] Positivo, [-0.1,0.1] Neutro, [-0.3,-0.1) Negativo,
\* <-0.3 Muito Negativo.
C4_LabelFollowsPartition ==
    sentiment_info # None =>
        sentiment_info.sentiment_label = PartitionLabel(sentiment_info.polarity)

\* C5: a run either produces a complete result or fails before any scoring
\* function has been called, and with a lexicon that lacks one of the four
\* categories it fails before any scoring function has been called.  (The
\* lexicon with no category at all is the case of C6.)
C5_FailsBeforeScoring ==
    (Ran /\ categories # EmptyLexicon) =>
        IF CategoryNames \subseteq DOMAIN categories
        THEN /\ outcome = "complete"
             /\ None \notin {sentiment_info, scores, percentuais, axes, insights}
        ELSE /\ outcome # "complete"
             /\ executed = << >>

\* C6: with the empty lexicon every run completes, with all scores zero, total
\* 0 and an axis result of four values.
C6_EmptyLexiconCompletes ==
    (Ran /\ categories = EmptyLexicon) =>
        /\ outcome = "complete"
        /\ \A c \in DOMAIN scores : scores[c] = 0
        /\ total_palavras_chave = 0
        /\ DOMAIN axes = {"pensamento", "acao", "subjetivo", "objetivo"}

ThoughtActionInsights == {"Texto reflexivo", "Texto ativo", "Equilíbrio reflexão-ação"}
SubjectiveObjectiveInsights ==
    {"Abordagem subjetiva", "Abordagem objetiva", "Perspectiva integrada"}
ToneInsights == {"Tom positivo", "Tom crítico", "Tom neutro"}
SubjectivityInsights == {"Alta subjetividade", "Baixa subjetividade"}

\* C7: generate_insights returns 3 or 4 insights: one Thought/Action insight,
\* then one Subjective/Objective insight, then one tone insight, then a
\* subjectivity insight exactly when subjectivity > 0.7 or subjectivity < 0.3.
C7_InsightsShape ==
    insights # None =>
        /\ Len(insights) \in {3, 4}
        /\ insights[1] \in ThoughtActionInsights
        /\ insights[2] \in SubjectiveObjectiveInsights
        /\ insights[3] \in ToneInsights
        /\ Len(insights) = 4 => insights[4] \in SubjectivityInsights
        /\ Len(insights) = 4 <=>
              \/ RGt(sentiment_info.subjectivity, Rat(7, 10))
              \/ RLt(sentiment_info.subjectivity, Rat(3, 10))

\* four insights, the last one for a low subjectivity
C7_Witness ==
    /\ insights # None
    /\ Len(insights) = 4
    /\ insights[1] = "Texto reflexivo"
    /\ insights[4] = "Baixa subjetividade"

SentimentFields ==
    {"polarity", "subjectivity", "sentiment_label", "sentiment_emoji",
     "sentiment_color", "sentiment_description"}

\* C8: when the translation was attempted and failed, no exception leaves
\* analyze_sentiment, the estimate is taken on the original text and the
\* complete sentiment dict is returned.
C8_TranslationFailureSwallowed ==
    translation = "failed" =>
        /\ outcome # "TranslationError"
        /\ Called("analyze_categories")
        /\ blob = "texto"
        /\ DOMAIN sentiment_info = SentimentFields

\* a completed run whose translation failed
C8_Witness ==
    /\ translation = "failed"
    /\ outcome = "complete"
    /\ blob = "texto"
    /\ sentiment_info.sentiment_label = "Muito Positivo"

C10_WholeWordCount ==
    scores # None =>
        /\ \A c \in DOMAIN categories :
              scores[c] = WholeWordCount(categories[c], CleanedText, 1)
        /\ (categories = FullLexicon /\ texto = <<"a", "a", " ", "a", "é">>) =>
              scores[PS] = 0
        /\ (categories = FullLexicon /\ texto = <<"A", ",">>) => scores[PS] = 1

\* one whole-word occurrence of each of the four keywords, with capitals and
\* punctuation, scores 1 in each category
C10_Witness ==
    /\ categories = FullLexicon
    /\ texto = FourKeywordsPunctuated
    /\ scores = [c \in CategoryNames |-> 1]
    /\ axes = [pensamento |-> FromInt(50), acao |-> FromInt(50),
               subjetivo |-> FromInt(50), objetivo |-> FromInt(50)]

Seventy == FromInt(70)

\* C11: for every axis result calculate_axes has produced, the first insight
\* is the reflective one iff pensamento > 70, the active one iff acao > 70 and
\* the balanced one iff both are <= 70; the second insight is the subjective
\* one iff subjetivo > 70, the objective one iff objetivo > 70 and the
\* integrated one iff both are <= 70; the two poles of an axis are never both
\* above 70; a pole at exactly 70 and the 50/50 fallback give the balanced and
\* the integrated insight.
C11_StrictSeventyThreshold ==
    (axes # None /\ insights # None) =>
        /\ ~(RGt(axes.pensamento, Seventy) /\ RGt(axes.acao, Seventy))
        /\ ~(RGt(axes.subjetivo, Seventy) /\ RGt(axes.objetivo, Seventy))
        /\ insights[1] = "Texto reflexivo" <=> RGt(axes.pensamento, Seventy)
        /\ insights[1] = "Texto ativo" <=> RGt(axes.acao, Seventy)
        /\ insights[1] = "Equilíbrio reflexão-ação" <=>
              (~RGt(axes.pensamento, Seventy) /\ ~RGt(axes.acao, Seventy))
        /\ insights[2] = "Abordagem subjetiva" <=> RGt(axes.subjetivo, Seventy)
        /\ insights[2] = "Abordagem objetiva" <=> RGt(axes.objetivo, Seventy)
        /\ insights[2] = "Perspectiva integrada" <=>
              (~RGt(axes.subjetivo, Seventy) /\ ~RGt(axes.objetivo, Seventy))
        /\ Seventy \in {axes.pensamento, axes.acao} =>
              insights[1] = "Equilíbrio reflexão-ação"
        /\ Seventy \in {axes.subjetivo, axes.objetivo} =>
              insights[2] = "Perspectiva integrada"
        /\ total_palavras_chave = 0 =>
              /\ insights[1] = "Equilíbrio reflexão-ação"
              /\ insights[2] = "Perspectiva integrada"

\* seven thought keywords against three action keywords, all of them
\* subjective: exactly 70/30 on one axis, 100/0 on the other
C11_Witness ==
    /\ insights # None
    /\ axes.pensamento = Seventy
    /\ axes.acao = FromInt(30)
    /\ axes.subjetivo = FromInt(100)
    /\ insights[1] = "Equilíbrio reflexão-ação"
    /\ insights[2] = "Abordagem subjetiva"

\* the denominator of app.py:155-157, on the percentages of the run
ThoughtActionDenominator ==
    RAdd(RAdd(percentuais[PS], percentuais[PO]), RAdd(percentuais[AC], percentuais[AP]))
\* the denominator of app.py:161-163, on the percentages of the run
SubjectiveObjectiveDenominator ==
    RAdd(RAdd(percentuais[PS], percentuais[AC]), RAdd(percentuais[PO], percentuais[AP]))

\* C12: on every four-category percentage mapping calculate_percentages has
\* produced, the two denominators of calculate_axes are both the sum of the
\* four percentages and are greater than 0 exactly when the total keyword
\* count is; with a total of 0 both axes are the 50/50 fallback, and with a
\* total greater than 0 neither is: pensamento = pct[PS] + pct[PO], acao =
\* pct[AC] + pct[AP], subjetivo = pct[PS] + pct[AC], objetivo = pct[PO] + pct[AP].
C12_SharedDenominator ==
    (percentuais # None /\ DOMAIN percentuais = CategoryNames) =>
        /\ ThoughtActionDenominator = SubjectiveObjectiveDenominator
        /\ ThoughtActionDenominator = RSumOver(percentuais, CategoryNames)
        /\ RGt(ThoughtActionDenominator, FromInt(0)) <=> total_palavras_chave > 0
        /\ axes # None
        /\ IF total_palavras_chave = 0
           THEN axes = [pensamento |-> FromInt(50), acao |-> FromInt(50),
                        subjetivo |-> FromInt(50), objetivo |-> FromInt(50)]
           ELSE /\ axes.pensamento = RAdd(percentuais[PS], percentuais[PO])
                /\ axes.acao = RAdd(percentuais[AC], percentuais[AP])
                /\ axes.subjetivo = RAdd(percentuais[PS], percentuais[AC])
                /\ axes.objetivo = RAdd(percentuais[PO], percentuais[AP])

\* one subjective-thought, two objective-thought and one practical-action
\* keyword: 75/25 on one axis, 25/75 on the other, neither on the fallback
C12_Witness ==
    /\ categories = FullLexicon
    /\ scores = [c \in CategoryNames |->
                    CASE c = PS -> 1 [] c = PO -> 2 [] c = AC -> 0 [] c = AP -> 1]
    /\ percentuais[PO] = FromInt(50)
    /\ axes.pensamento = FromInt(75)
    /\ axes.subjetivo = FromInt(25)

=============================================================================
